---- MODULE Spec2Model ----
(***************************************************************************)
(* Signal Quality Index (SignalQualityIndex.py): the staged classifier SQI *)
(* and the band-pass helper fir_filter.                                    *)
(*                                                                         *)
(* Numbers.  A raw optical density is counted in hundredths (0.04 is 4,    *)
(* 2.5 is 250) and stands for the double nearest to that decimal; a raw    *)
(* haemoglobin sample is a whole number; the sampling rate is in tenths of *)
(* a hertz.  A detrended or filtered sample is fixed point, SigUnit to one *)
(* raw unit; kernel coefficients are fixed point with four decimals        *)
(* (KernUnit), logarithms and the score too (Unit), normalised             *)
(* autocorrelations with three (AcUnit).  A float result is a record       *)
(* [k, v]: k is "fin" (value v / Unit), "nan", "pinf" or "ninf", the       *)
(* values numpy produces for 0/0, x/0 and log(0).  The one place where the *)
(* code tests a float for equality, np.std(OD) == 0, is computed bit for   *)
(* bit in IEEE-754 double precision.                                       *)
(***************************************************************************)
EXTENDS Integers, Sequences, FiniteSets

VARIABLES
    OD1, OD2, oxy, dxy, Fs,                    \* the arguments of each call
    pc,                                        \* where each call stands
    OD1_filt, OD2_filt, oxy_filt, dxy_filt,    \* locals of each call
    SQIscore,                                  \* the value each call returns
    err,                                       \* the exception a call raised
    visited,                                   \* stages each call evaluated, in order
    f_len, f_Fs, f_numtaps, f_pc               \* one fir_filter call, step by step

vars == <<OD1, OD2, oxy, dxy, Fs, pc, OD1_filt, OD2_filt, oxy_filt, dxy_filt,
          SQIscore, err, visited, f_len, f_Fs, f_numtaps, f_pc>>

sqiVars == <<OD1, OD2, oxy, dxy, Fs, pc, OD1_filt, OD2_filt, oxy_filt, dxy_filt,
             SQIscore, err, visited>>

firVars == <<f_len, f_Fs, f_numtaps, f_pc>>

(***************************************************************************)
(* Bounds of the model.                                                    *)
(***************************************************************************)
MaxLen == 11         \* longest window given to SQI
MaxFirLen == 30      \* longest signal given to fir_filter alone
MaxFirFs == 12       \* number of sampling rates given to fir_filter alone

Calls == {1, 2}

(***************************************************************************)
(* Arithmetic helpers.                                                     *)
(***************************************************************************)
Abs(a) == IF a < 0 THEN -a ELSE a

Unit == 10 ^ 4

AcUnit == 10 ^ 3

SigUnit == 10 ^ 2

KernUnit == 10 ^ 4

\* a / b rounded towards zero (b > 0)
TruncDiv(a, b) == IF a < 0 THEN -((-a) \div b) ELSE a \div b

\* a / b rounded to the nearest integer (b > 0)
RoundDiv(a, b) == IF a < 0 THEN -((2 * (-a) + b) \div (2 * b)) ELSE (2 * a + b) \div (2 * b)

\* the smallest integer >= a / b (b > 0)
CeilDiv(a, b) == -((-a) \div b)

RECURSIVE SumTo(_, _)
SumTo(s, n) == IF n = 0 THEN 0 ELSE s[n] + SumTo(s, n - 1)

Sum(s) == SumTo(s, Len(s))

SumAbs(s) == Sum([i \in 1 .. Len(s) |-> Abs(s[i])])

SumSq(s) == Sum([i \in 1 .. Len(s) |-> s[i] * s[i]])

\* N^2 * variance of s
VarNum(s) == Len(s) * SumSq(s) - Sum(s) * Sum(s)

Reverse(s) == [i \in 1 .. Len(s) |-> s[Len(s) + 1 - i]]

RECURSIVE Log2Floor(_)
Log2Floor(n) == IF n < 2 THEN 0 ELSE 1 + Log2Floor(n \div 2)

RECURSIVE BitLen(_)
BitLen(n) == IF n = 0 THEN 0 ELSE 1 + BitLen(n \div 2)

(***************************************************************************)
(* fir_filter: the tap count and the two library calls that can refuse it. *)
(* f is the sampling rate in tenths of a hertz.                            *)
(***************************************************************************)
ripple == 65

\* width = 0.2, in tenths
width == 2

\* cutoff = [0.4, 3], in tenths of a hertz
cutoff_low == 4

cutoff_high == 30

\* kaiserord(ripple, width / (0.5 * Fs))[0]:
\*   ceil((ripple - 7.95) / 2.285 / (pi * w) + 1),  w = width / (0.5 * Fs),
\* with pi taken as 355/113 (exact for every rate the model draws).
kaiserord(f) ==
    CeilDiv((ripple * 100 - 795) * 113 * 5 * f, 2285 * 355 * width) + 1

\* if numtaps > len(signal) / 3.5: numtaps = int(len(signal) / 3.5)
CappedTaps(n, len) == IF 7 * n > 2 * len THEN (2 * len) \div 7 ELSE n

\* numtaps |= 1
OddTaps(n) == IF n % 2 = 0 THEN n + 1 ELSE n

numtaps(len, f) == OddTaps(CappedTaps(kaiserord(f), len))

\* firwin: "Invalid cutoff frequency: frequencies must be greater than 0 and
\* less than fs/2" (cutoff / (0.5 * fs) must lie strictly inside (0, 1))
firwin_raises(f) == ~(f > 0 /\ 2 * cutoff_low > 0 /\ 2 * cutoff_high < f)

\* filtfilt, default padding: padlen = 3 * max(len(a), len(b)) = 3 * numtaps,
\* "The length of the input vector x must be greater than padlen"
filtfilt_raises(len, n) == len <= 3 * n

(***************************************************************************)
(* One call of fir_filter on a signal of f_len samples, a step per line.   *)
(***************************************************************************)
FirRates == (1 .. MaxFirFs) \cup {50, 70, 76, 100}

FirKaiserord ==
    /\ f_pc = "kaiserord"
    /\ f_numtaps' = kaiserord(f_Fs)
    /\ f_pc' = "cap"
    /\ UNCHANGED <<f_len, f_Fs>>
    /\ UNCHANGED sqiVars

FirCap ==
    /\ f_pc = "cap"
    /\ f_numtaps' = CappedTaps(f_numtaps, f_len)
    /\ f_pc' = "odd"
    /\ UNCHANGED <<f_len, f_Fs>>
    /\ UNCHANGED sqiVars

FirOdd ==
    /\ f_pc = "odd"
    /\ f_numtaps' = OddTaps(f_numtaps)
    /\ f_pc' = "firwin"
    /\ UNCHANGED <<f_len, f_Fs>>
    /\ UNCHANGED sqiVars

FirFirwin ==
    /\ f_pc = "firwin"
    /\ f_pc' = IF firwin_raises(f_Fs) THEN "raised_firwin" ELSE "filtfilt"
    /\ UNCHANGED <<f_len, f_Fs, f_numtaps>>
    /\ UNCHANGED sqiVars

FirFiltfilt ==
    /\ f_pc = "filtfilt"
    /\ f_pc' = IF filtfilt_raises(f_len, f_numtaps) THEN "raised_filtfilt" ELSE "returned"
    /\ UNCHANGED <<f_len, f_Fs, f_numtaps>>
    /\ UNCHANGED sqiVars

(***************************************************************************)
(* Floats as numpy produces them.                                          *)
(***************************************************************************)
Fin(v) == [k |-> "fin", v |-> v]

NaN == [k |-> "nan", v |-> 0]

PosInf == [k |-> "pinf", v |-> 0]

NegInf == [k |-> "ninf", v |-> 0]

NoScore == [k |-> "none", v |-> 0]

\* x < t and x > t for a float x and a finite t: both False on NaN
FloatLess(x, t) == x.k = "ninf" \/ (x.k = "fin" /\ x.v < t)

FloatGreater(x, t) == x.k = "pinf" \/ (x.k = "fin" /\ x.v > t)

\* a * 10^d \div b without leaving 32 bits (a >= 0, b > 0)
RECURSIVE ScaledQuot(_, _, _)
ScaledQuot(a, b, d) ==
    IF d = 0 THEN a \div b
    ELSE (a \div b) * 10 ^ d + ScaledQuot((a % b) * 10, b, d - 1)

\* ln(m / 2^14) * 10^5 for 2^14 <= m < 2^15:
\* 2 * atanh(z), z = (m - 2^14) / (m + 2^14) < 1/3, by its series to z^9
LnMantissa(m) ==
    LET z  == ((m - 16384) * 100000) \div (m + 16384)
        z2 == (z * z) \div 100000
        z3 == (z2 * z) \div 100000
        z5 == (z3 * z2) \div 100000
        z7 == (z5 * z2) \div 100000
        z9 == (z7 * z2) \div 100000
    IN  2 * (z + z3 \div 3 + z5 \div 5 + z7 \div 7 + z9 \div 9)

\* np.log(n) * Unit for an integer n >= 1, rounded
LnFx(n) ==
    LET e == Log2Floor(n)
        m == IF e > 14 THEN n \div 2 ^ (e - 14) ELSE n * 2 ^ (14 - e)
    IN  (e * 69315 + LnMantissa(m) + 5) \div 10

\* np.log(p / q) for p, q >= 0
LogRatio(p, q) ==
    IF q = 0 THEN (IF p = 0 THEN NaN ELSE PosInf)
    ELSE IF p = 0 THEN NegInf
    ELSE Fin(LnFx(p) - LnFx(q))

(***************************************************************************)
(* np.std(x) == 0 in double precision.  np.std subtracts the computed mean *)
(* from every sample, so the result is 0 exactly when every sample equals  *)
(* the computed mean: the vector is constant, c say, and sum / N gives c   *)
(* back.  The sum of N copies of c is a whole number of units in the last  *)
(* place of c; it is kept as <<h, l>>, standing for h * Limb + l such      *)
(* units, and rounded to 53 significant bits, ties to even, after every    *)
(* addition.                                                               *)
(***************************************************************************)
Limb == 2 ^ 26

Carry(h, l) == <<h + l \div Limb, l % Limb>>

BigAdd(a, b) == Carry(a[1] + b[1], a[2] + b[2])

\* a rounded to 53 significant bits, ties to even
Round53(a) ==
    LET sh == BitLen(a[1]) - 27
        u  == 2 ^ sh
        r  == a[2] % u
        up == 2 * r > u \/ (2 * r = u /\ (a[2] \div u) % 2 = 1)
    IN  IF sh <= 0 THEN a ELSE Carry(a[1], a[2] - r + (IF up THEN u ELSE 0))

\* the binary expansion of a quotient by 100, a bit at a time, until 53
\* bits are out: <<h, l, remainder>>
RECURSIVE Expand(_, _, _)
Expand(h, l, r) ==
    IF h >= Limb THEN <<h, l, r>>
    ELSE LET b == IF 2 * r >= 100 THEN 1 ELSE 0
         IN  Expand(2 * h + (2 * l + b) \div Limb, (2 * l + b) % Limb, 2 * r - 100 * b)

\* the significand of the double nearest to v / 100 (v > 0)
Significand(v) ==
    LET e  == Expand(0, v \div 100, v % 100)
        up == 2 * e[3] > 100 \/ (2 * e[3] = 100 /\ e[2] % 2 = 1)
    IN  Carry(e[1], e[2] + (IF up THEN 1 ELSE 0))

\* acc + m + ... + m (k times), every addition rounded
RECURSIVE AddTimes(_, _, _)
AddTimes(acc, m, k) ==
    IF k = 0 THEN acc ELSE AddTimes(Round53(BigAdd(acc, m)), m, k - 1)

\* np.add.reduce over n copies of m: in order below 8 samples; from 8 on,
\* eight running sums that are then added in pairs (exact: they are equal),
\* and the last n % 8 samples in order (n < 16 here)
np_sum(m, n) ==
    IF n < 8 THEN AddTimes(<<0, 0>>, m, n)
    ELSE LET r  == AddTimes(m, m, n \div 8 - 1)
             r2 == BigAdd(r, r)
             r4 == BigAdd(r2, r2)
         IN  AddTimes(BigAdd(r4, r4), m, n % 8)

\* t / n rounded to a whole number of units, ties to even (a quotient that
\* falls below 2^52 units is below every significand, however it is rounded)
np_mean(t, n) ==
    LET qh  == t[1] \div n
        x   == (t[1] % n) * Limb + t[2]
        ql  == x \div n
        rem == x % n
        up  == 2 * rem > n \/ (2 * rem = n /\ ql % 2 = 1)
    IN  Carry(qh, ql + (IF up /\ qh >= Limb THEN 1 ELSE 0))

\* np.std(x) == 0
np_std_is_zero(x) ==
    /\ \A i \in 1 .. Len(x) : x[i] = x[1]
    /\ x[1] = 0 \/ np_mean(np_sum(Significand(x[1]), Len(x)), Len(x)) = Significand(x[1])

(***************************************************************************)
(* Signals: detrend, the kernel, the zero-phase filter.                    *)
(***************************************************************************)
NoSignal == << >>

\* scipy.signal.detrend(x): x minus its least-squares line.
\* With u[i] = 2i - (N+1): x[i] - mean - (sum(x u) / sum(u u)) u[i].
detrend(x) ==
    LET N   == Len(x)
        u   == [i \in 1 .. N |-> 2 * i - (N + 1)]
        su2 == SumSq(u)
        sx  == Sum(x)
        sxu == Sum([i \in 1 .. N |-> x[i] * u[i]])
        S   == N * su2
        y   == [i \in 1 .. N |->
                   RoundDiv((S * x[i] - su2 * sx - N * sxu * u[i]) * SigUnit, S)]
    IN  SubSeq(y, 1, N)

\* firwin(numtaps, [0.4, 3], window=('kaiser', beta), pass_zero='bandpass',
\* fs): the ideal band-pass response sampled at -1, 0, 1, times the Kaiser
\* window (beta = 0.1102 * (65 - 8.7), so w = [1, I0(beta), 1] / I0(beta)
\* with I0(beta) = 81.0333), scaled to unit gain at 1.7 Hz.  At fs = 10 Hz:
\* [0.0052788, 0.9949139, 0.0052788].
firwin(n, f) == CASE n = 3 /\ f = 100 -> <<53, 9949, 53>>

\* scipy.signal._arraytools.odd_ext(x, p): x continued p samples either way
\* by reflection through its end points
odd_ext(x, p) ==
    LET N == Len(x)
    IN  [i \in 1 .. N + 2 * p |->
            IF i <= p THEN 2 * x[1] - x[p + 2 - i]
            ELSE IF i <= p + N THEN x[i - p]
            ELSE 2 * x[N] - x[2 * N + p - i]]

\* lfilter(b, 1, e, zi=lfilter_zi(b, 1) * e[0]): the kernel run over e, the
\* samples before the first taken to equal it
lfilter(b, e) ==
    LET y == [n \in 1 .. Len(e) |->
                 RoundDiv(Sum([k \in 1 .. Len(b) |->
                                  b[k] * e[IF n - k + 1 < 1 THEN 1 ELSE n - k + 1]]),
                          KernUnit)]
    IN  SubSeq(y, 1, Len(e))

\* filtfilt(b, 1, x): pad by 3 * len(b) samples, filter forwards, filter
\* backwards, drop the padding
filtfilt(b, x) ==
    LET p == 3 * Len(b)
        e == SubSeq(odd_ext(x, p), 1, Len(x) + 2 * p)
        y == lfilter(b, e)
        z == Reverse(lfilter(b, SubSeq(Reverse(y), 1, Len(y))))
    IN  SubSeq(z, p + 1, p + Len(x))

\* fir_filter(signal, Fs, cutoff=[0.4, 3]): what it raises, or what it
\* returns.  0.5 * Fs = 0 divides by zero before anything else.
fir_filter(signal, f) ==
    LET n == numtaps(Len(signal), f)
    IN  IF f = 0 THEN [err |-> "ZeroDivisionError", out |-> NoSignal]
        ELSE IF firwin_raises(f) THEN [err |-> "ValueError", out |-> NoSignal]
        ELSE IF filtfilt_raises(Len(signal), n)
             THEN [err |-> "ValueError", out |-> NoSignal]
        ELSE [err |-> "none", out |-> filtfilt(firwin(n, f), signal)]

\* correlate(x, x): entry j is the sum of x[i] * x[i + j - N]
correlate(x) ==
    LET N == Len(x)
    IN  [j \in 1 .. 2 * N - 1 |->
            Sum([i \in 1 .. N |->
                    IF i + j - N >= 1 /\ i + j - N <= N
                    THEN x[i] * x[i + j - N] ELSE 0])]

\* correlate(x, x) / np.sum(x ** 2), each entry in thousandths
autocorr(x) ==
    LET r == correlate(x)
        E == SumSq(x)
    IN  [j \in 1 .. 2 * Len(x) - 1 |->
            IF r[j] < 0 THEN -ScaledQuot(-r[j], E, 3) ELSE ScaledQuot(r[j], E, 3)]

(***************************************************************************)
(* SQI: parameters (lines 48-54), in the units above.                      *)
(***************************************************************************)
thrUp_intensity == 250

thrLow_intensity == 4

thr_sumHbratio == 6700

thr_acorrDiffODs == 40

slope == 17956

intercept == 8461

\* np.any(OD < thrLow_intensity) or np.any(OD > thrUp_intensity)
OutOfRange(od) ==
    \/ \E i \in 1 .. Len(od) : od[i] < thrLow_intensity
    \/ \E i \in 1 .. Len(od) : od[i] > thrUp_intensity

\* np.std(OD) == 0
FlatLine(od) == np_std_is_zero(od)

\* the ratio upside down, deoxy over oxy: a fault C5_PassBGate must tell from
\* sumHbratio
sumHbratio_inverted(o, d) == LogRatio(SumAbs(d), SumAbs(o))

\* np.log(np.sum(np.abs(oxy_filt)) / np.sum(np.abs(dxy_filt)))
sumHbratio(o, d) == LogRatio(SumAbs(o), SumAbs(d))

\* np.std(autocorr_od1_filt - autocorr_od2_filt) squared, times the square
\* of (2N-1) * AcUnit; NaN when either signal has no energy (0/0)
acorrDiffVar(x1, x2) ==
    IF SumSq(x1) = 0 \/ SumSq(x2) = 0 THEN NaN
    ELSE LET a1 == autocorr(x1)
             a2 == autocorr(x2)
             d  == [j \in 1 .. 2 * Len(x1) - 1 |-> a1[j] - a2[j]]
         IN  Fin(VarNum(d))

\* the comparison turned round, std > 1/thr: a fault C4_Stage2Gate must tell
\* from acorrDiffHigh
acorrDiffHigh_reversed(x1, x2) ==
    LET s == acorrDiffVar(x1, x2)
        M == 2 * Len(x1) - 1
    IN  s.k = "fin" /\ s.v > ((M * AcUnit) \div thr_acorrDiffODs) ^ 2

\* (1 / np.std(...)) > thr_acorrDiffODs: with std = sqrt(v) / (M * AcUnit),
\* 1/std > thr  iff  v < (M * AcUnit / thr)^2; 1/0 is inf, NaN compares False
acorrDiffHigh(x1, x2) ==
    LET s == acorrDiffVar(x1, x2)
        M == 2 * Len(x1) - 1
    IN  s.k = "fin" /\ s.v < ((M * AcUnit) \div thr_acorrDiffODs) ^ 2

\* np.log(np.std(oxy_filt) / np.std(dxy_filt)),
\* np.std(x) = sqrt(VarNum(x)) / (N * SigUnit)
logStdHb(o, d) ==
    LET vo == VarNum(o)
        vd == VarNum(d)
    IN  IF vd = 0 THEN (IF vo = 0 THEN NaN ELSE PosInf)
        ELSE IF vo = 0 THEN NegInf
        ELSE Fin(TruncDiv(LnFx(vo) - LnFx(vd), 2) + LnFx(Len(d)) - LnFx(Len(o)))

\* logStdHb * slope + intercept
regression(l) ==
    IF l.k = "fin" THEN Fin(TruncDiv(l.v * slope, Unit) + intercept) ELSE l

\* the lower bound alone: a fault C6_Stage3Score must tell from clamp
clamp_below_only(x) == IF FloatLess(x, 1 * Unit) THEN Fin(1 * Unit) ELSE x

\* if SQIscore < 1: 1   elif SQIscore > 5: 5
clamp(x) ==
    IF FloatLess(x, 1 * Unit) THEN Fin(1 * Unit)
    ELSE IF FloatGreater(x, 5 * Unit) THEN Fin(5 * Unit)
    ELSE x

(***************************************************************************)
(* The inputs the model draws.                                             *)
(***************************************************************************)
\* level b with one sample v
Spike(N, b, v) == [i \in 1 .. N |-> IF i = 2 THEN v ELSE b]

\* a spike with a second, smaller one of height w beside it
Noisy(N, w) == [i \in 1 .. N |-> IF i = 2 THEN 247 ELSE IF i = 3 THEN 127 + w ELSE 127]

\* a, -a, a, ... starting low
Alt(N, a) == [i \in 1 .. N |-> IF i % 2 = 0 THEN a ELSE -a]

\* one step up and one step down, side by side
Pair(N, b) == [i \in 1 .. N |-> IF i = 4 THEN b ELSE IF i = 5 THEN -b ELSE 0]

ODShapes(N) ==
    {Spike(N, 45, 45), Spike(N, 127, 3), Spike(N, 127, 4), Spike(N, 127, 250),
     Spike(N, 127, 251), Noisy(N, 3), Noisy(N, 30)}

HbShapes(N) ==
    {Spike(N, 0, 0), Spike(N, 0, 10), Spike(N, 0, 20), Spike(N, 0, 110),
     Alt(N, 12), Pair(N, 25)}

\* window lengths
Lengths == (MaxLen - 2) .. MaxLen

\* sampling rates in tenths of a hertz: 5 Hz and 10 Hz; and two that are not rates
GoodRates == {50, 100}

BadRates == {-10, 0}

Args(a, b, c, d, f) == [OD1 |-> a, OD2 |-> b, oxy |-> c, dxy |-> d, Fs |-> f]

\* four signals of one length, a positive rate
SameLengthInputs ==
    UNION {{Args(a, b, c, d, f) : a \in ODShapes(N), b \in ODShapes(N),
                                  c \in HbShapes(N), d \in HbShapes(N), f \in GoodRates}
           : N \in Lengths}

\* a single sample
TooShortInputs ==
    {Args(<<a>>, <<127>>, <<c>>, <<5>>, f) : a \in {3, 127}, c \in {0, 20}, f \in GoodRates}

\* a rate that is zero or negative
BadRateInputs ==
    UNION {{Args(a, Spike(N, 127, 4), Spike(N, 0, 20), Spike(N, 0, 10), f) :
                a \in ODShapes(N), f \in BadRates} : N \in Lengths}

\* lengths that differ
MixedLengthInputs ==
    LET L == {MaxLen - 1, MaxLen}
    IN  {Args(Spike(n[1], 127, v), Noisy(n[2], 30), Spike(n[3], 0, 30),
              Spike(n[4], 0, 10), 100) :
            n \in {m \in [1 .. 4 -> L] : \E i \in 1 .. 4 : m[i] # m[1]},
            v \in {4, 251}}

Inputs == SameLengthInputs \cup TooShortInputs \cup BadRateInputs \cup MixedLengthInputs

\* the preconditions of SQI (the samples the model draws are all finite)
ValidArgs(in) ==
    /\ Len(in.OD2) = Len(in.OD1)
    /\ Len(in.oxy) = Len(in.OD1)
    /\ Len(in.dxy) = Len(in.OD1)
    /\ Len(in.OD1) >= 2
    /\ in.Fs > 0

\* SQI(OD1, OD2, oxy, dxy, Fs) as a function of its arguments: the score it
\* returns, or the exception that leaves it
SQI(in) ==
    LET r1 == fir_filter(detrend(in.OD1), in.Fs)
        r2 == fir_filter(detrend(in.OD2), in.Fs)
        r3 == fir_filter(detrend(in.oxy), in.Fs)
        r4 == fir_filter(detrend(in.dxy), in.Fs)
        Returns(x) == [score |-> x, err |-> "none"]
        Raises(e) == [score |-> NoScore, err |-> e]
    IN  IF OutOfRange(in.OD1) \/ OutOfRange(in.OD2) THEN Returns(Fin(1 * Unit))
        ELSE IF FlatLine(in.OD1) \/ FlatLine(in.OD2) THEN Returns(Fin(1 * Unit))
        ELSE IF r1.err # "none" THEN Raises(r1.err)
        ELSE IF r2.err # "none" THEN Raises(r2.err)
        ELSE IF r3.err # "none" THEN Raises(r3.err)
        ELSE IF r4.err # "none" THEN Raises(r4.err)
        ELSE IF FloatLess(sumHbratio(r3.out, r4.out), thr_sumHbratio)
             THEN Returns(Fin(1 * Unit))
        ELSE IF Len(r1.out) # Len(r2.out) THEN Raises("ValueError")
        ELSE IF acorrDiffHigh(r1.out, r2.out) THEN Returns(Fin(5 * Unit))
        ELSE Returns(clamp(regression(logStdHb(r3.out, r4.out))))

(***************************************************************************)
(* SQI, a step per stage.  Each call has its own arguments and locals;     *)
(* the function reads and writes nothing else.                             *)
(***************************************************************************)
\* one frame for every call, as if the locals were module globals: a fault
\* C7_Pure must tell from Frame
Frame_shared(c) == 1

\* the frame a step of call c writes its locals to
Frame(c) == c

\* return SQIscore
Return(c, score) ==
    /\ SQIscore' = [SQIscore EXCEPT ![Frame(c)] = score]
    /\ pc' = [pc EXCEPT ![c] = "done"]

\* an exception leaves SQI: no value is returned
Raise(c, e) ==
    /\ err' = [err EXCEPT ![c] = e]
    /\ pc' = [pc EXCEPT ![c] = "raised"]

Visit(c, stage) == visited' = [visited EXCEPT ![c] = Append(@, stage)]

\* lines 60-63: counts outside of the linear range
RangeCheck(c) ==
    /\ pc[c] = "range"
    /\ Visit(c, "range")
    /\ IF OutOfRange(OD1[c]) \/ OutOfRange(OD2[c])
       THEN Return(c, Fin(1 * Unit))
       ELSE pc' = [pc EXCEPT ![c] = "flat"] /\ UNCHANGED SQIscore
    /\ UNCHANGED <<OD1, OD2, oxy, dxy, Fs, OD1_filt, OD2_filt, oxy_filt, dxy_filt, err>>
    /\ UNCHANGED firVars

\* lines 66-68: one of the optical densities is a flat line
FlatCheck(c) ==
    /\ pc[c] = "flat"
    /\ Visit(c, "flat")
    /\ IF FlatLine(OD1[c]) \/ FlatLine(OD2[c])
       THEN Return(c, Fin(1 * Unit))
       ELSE pc' = [pc EXCEPT ![c] = "filter"] /\ UNCHANGED SQIscore
    /\ UNCHANGED <<OD1, OD2, oxy, dxy, Fs, OD1_filt, OD2_filt, oxy_filt, dxy_filt, err>>
    /\ UNCHANGED firVars

\* lines 73-76: detrend and band-pass the four signals, in this order; the
\* first call that raises ends SQI
Preprocess(c) ==
    LET r1 == fir_filter(detrend(OD1[c]), Fs[c])
        r2 == fir_filter(detrend(OD2[c]), Fs[c])
        r3 == fir_filter(detrend(oxy[c]), Fs[c])
        r4 == fir_filter(detrend(dxy[c]), Fs[c])
        ok1 == r1.err = "none"
        ok2 == ok1 /\ r2.err = "none"
        ok3 == ok2 /\ r3.err = "none"
        ok4 == ok3 /\ r4.err = "none"
    IN  /\ pc[c] = "filter"
        /\ Visit(c, "filter")
        /\ OD1_filt' = [OD1_filt EXCEPT ![Frame(c)] = IF ok1 THEN r1.out ELSE NoSignal]
        /\ OD2_filt' = [OD2_filt EXCEPT ![Frame(c)] = IF ok2 THEN r2.out ELSE NoSignal]
        /\ oxy_filt' = [oxy_filt EXCEPT ![Frame(c)] = IF ok3 THEN r3.out ELSE NoSignal]
        /\ dxy_filt' = [dxy_filt EXCEPT ![Frame(c)] = IF ok4 THEN r4.out ELSE NoSignal]
        /\ IF ok4
           THEN pc' = [pc EXCEPT ![c] = "passB"] /\ UNCHANGED err
           ELSE Raise(c, IF ~ok1 THEN r1.err ELSE IF ~ok2 THEN r2.err
                         ELSE IF ~ok3 THEN r3.err ELSE r4.err)
        /\ UNCHANGED <<OD1, OD2, oxy, dxy, Fs, SQIscore>>
        /\ UNCHANGED firVars

\* lines 80-82: different scale of oxy and deoxy
PassB(c) ==
    /\ pc[c] = "passB"
    /\ Visit(c, "passB")
    /\ IF FloatLess(sumHbratio(oxy_filt[c], dxy_filt[c]), thr_sumHbratio)
       THEN Return(c, Fin(1 * Unit))
       ELSE pc' = [pc EXCEPT ![c] = "stage2"] /\ UNCHANGED SQIscore
    /\ UNCHANGED <<OD1, OD2, oxy, dxy, Fs, OD1_filt, OD2_filt, oxy_filt, dxy_filt, err>>
    /\ UNCHANGED firVars

\* lines 90-94: the autocorrelations of the two filtered optical densities
\* differ little; arrays of different lengths cannot be subtracted
Stage2(c) ==
    /\ pc[c] = "stage2"
    /\ Visit(c, "stage2")
    /\ IF Len(OD1_filt[c]) # Len(OD2_filt[c])
       THEN Raise(c, "ValueError") /\ UNCHANGED SQIscore
       ELSE /\ UNCHANGED err
            /\ IF acorrDiffHigh(OD1_filt[c], OD2_filt[c])
               THEN Return(c, Fin(5 * Unit))
               ELSE pc' = [pc EXCEPT ![c] = "stage3"] /\ UNCHANGED SQIscore
    /\ UNCHANGED <<OD1, OD2, oxy, dxy, Fs, OD1_filt, OD2_filt, oxy_filt, dxy_filt>>
    /\ UNCHANGED firVars

\* lines 102-111: the regression on the log ratio of standard deviations
Stage3(c) ==
    /\ pc[c] = "stage3"
    /\ Visit(c, "stage3")
    /\ Return(c, clamp(regression(logStdHb(oxy_filt[c], dxy_filt[c]))))
    /\ UNCHANGED <<OD1, OD2, oxy, dxy, Fs, OD1_filt, OD2_filt, oxy_filt, dxy_filt, err>>
    /\ UNCHANGED firVars

Step(c) ==
    \/ RangeCheck(c)
    \/ FlatCheck(c)
    \/ Preprocess(c)
    \/ PassB(c)
    \/ Stage2(c)
    \/ Stage3(c)

Next == \E c \in Calls : Step(c)

NoArgs == Args(<< >>, << >>, << >>, << >>, 0)

\* the calls a[c] about to run (NoArgs: call c is never made), nothing computed
Start(a) ==
    /\ OD1 = [c \in Calls |-> a[c].OD1]
    /\ OD2 = [c \in Calls |-> a[c].OD2]
    /\ oxy = [c \in Calls |-> a[c].oxy]
    /\ dxy = [c \in Calls |-> a[c].dxy]
    /\ Fs = [c \in Calls |-> a[c].Fs]
    /\ pc = [c \in Calls |-> IF a[c] = NoArgs THEN "idle" ELSE "range"]
    /\ OD1_filt = [c \in Calls |-> NoSignal]
    /\ OD2_filt = [c \in Calls |-> NoSignal]
    /\ oxy_filt = [c \in Calls |-> NoSignal]
    /\ dxy_filt = [c \in Calls |-> NoSignal]
    /\ SQIscore = [c \in Calls |-> NoScore]
    /\ err = [c \in Calls |-> "none"]
    /\ visited = [c \in Calls |-> << >>]

FirIdle == f_len = 0 /\ f_Fs = 0 /\ f_numtaps = 0 /\ f_pc = "off"

\* one call of SQI
Init ==
    /\ \E in \in Inputs : Start([c \in Calls |-> IF c = 1 THEN in ELSE NoArgs])
    /\ FirIdle

Spec == Init /\ [][Next]_vars

\* two calls of SQI running side by side, their steps interleaved at will
ParInputs ==
    LET N == MaxLen
    IN  {Args(a, Spike(N, 127, 250), c, d, 100) :
            a \in {Spike(N, 127, 4), Spike(N, 127, 251), Spike(N, 45, 45), Noisy(N, 30)},
            c \in {Spike(N, 0, 0), Spike(N, 0, 20), Spike(N, 0, 110)},
            d \in {Spike(N, 0, 0), Spike(N, 0, 10)}}

InitPar ==
    /\ \E a \in [Calls -> ParInputs] : Start(a)
    /\ FirIdle

SpecPar == InitPar /\ [][Next]_vars

\* fir_filter alone, on every length from 7 samples (below, the cap leaves a
\* single tap) and every rate
InitFir ==
    /\ Start([c \in Calls |-> NoArgs])
    /\ f_len \in 7 .. MaxFirLen
    /\ f_Fs \in FirRates
    /\ f_numtaps = 0
    /\ f_pc = "kaiserord"

NextFir ==
    \/ FirKaiserord
    \/ FirCap
    \/ FirOdd
    \/ FirFirwin
    \/ FirFiltfilt

SpecFir == InitFir /\ [][NextFir]_vars

(***************************************************************************)
(* The claims.                                                             *)
(***************************************************************************)
ArgsOf(c) == Args(OD1[c], OD2[c], oxy[c], dxy[c], Fs[c])

ValidCall(c) == pc[c] # "idle" /\ ValidArgs(ArgsOf(c))

Finished(c) == pc[c] \in {"done", "raised"}

LastVisited(c) == visited[c][Len(visited[c])]

One == Fin(10000)

Five == Fin(50000)

\* C1: whenever SQI returns on valid arguments, the score is a number in
\* [1, 5]: not NaN, not infinite, not outside the interval.
C1_ScoreInRange ==
    \A c \in Calls :
        (ValidCall(c) /\ pc[c] = "done") =>
            /\ SQIscore[c].k = "fin"
            /\ SQIscore[c].v >= 10000
            /\ SQIscore[c].v <= 50000

\* C2: a call whose arguments violate a precondition (lengths differ, fewer
\* than two samples, rate not positive) evaluates no stage and returns no
\* score: it fails with InvalidInput before anything else.
C2_InvalidInputRejected ==
    \A c \in Calls :
        (pc[c] # "idle" /\ ~ValidArgs(ArgsOf(c))) =>
            /\ visited[c] = << >>
            /\ SQIscore[c] = NoScore
            /\ (pc[c] = "range" \/ err[c] = "InvalidInput")

C3_Outside(od) == \E i \in 1 .. Len(od) : od[i] < 4 \/ od[i] > 250

C3_Constant(od) == \A i, j \in 1 .. Len(od) : od[i] = od[j]

C3_GateFires(c) ==
    \/ C3_Outside(OD1[c]) \/ C3_Outside(OD2[c])
    \/ C3_Constant(OD1[c]) \/ C3_Constant(OD2[c])

\* C3: Pass A.  A call with a sample of OD1 or OD2 below 0.04 or above 2.5,
\* or with a constant OD1 or OD2, never gets past Pass A and returns exactly
\* 1, whatever oxy, dxy and Fs are.  A call without (samples equal to 0.04 or
\* 2.5 included) leaves Pass A with no score assigned and goes on to the
\* filter.
C3_PassA ==
    \A c \in Calls :
        pc[c] # "idle" =>
            IF C3_GateFires(c)
            THEN /\ pc[c] \in {"range", "flat", "done"}
                 /\ pc[c] = "done" => SQIscore[c] = One
            ELSE /\ pc[c] \in {"range", "flat", "filter"} => SQIscore[c] = NoScore
                 /\ Finished(c) => Len(visited[c]) > 2

\* a flat optical density, in range, returned 1 at the flat-line check
C3_Witness ==
    \E c \in Calls :
        /\ ValidCall(c) /\ pc[c] = "done" /\ SQIscore[c] = One
        /\ ~C3_Outside(OD1[c]) /\ ~C3_Outside(OD2[c]) /\ C3_Constant(OD1[c])
        /\ visited[c] = <<"range", "flat">>

\* metric = 1 / std(autocorr(OD1_filt) - autocorr(OD2_filt)) > 40, i.e.
\* std < 1/40: (2N-1)^2 * 10^6 * variance < (2N-1)^2 * 625
C4_MetricAbove40(c) ==
    LET s == acorrDiffVar(OD1_filt[c], OD2_filt[c])
        M == 2 * Len(OD1_filt[c]) - 1
    IN  s.k = "fin" /\ s.v < 625 * M * M

\* C4: Stage 2.  Once a valid call has evaluated Stage 2: if metric > 40 it
\* has returned exactly 5 and Stage 3 is not evaluated; otherwise Stage 2
\* assigned no score and Stage 3 is evaluated next.
C4_Stage2Gate ==
    \A c \in Calls :
        (ValidCall(c) /\ Len(visited[c]) >= 5) =>
            IF C4_MetricAbove40(c)
            THEN pc[c] = "done" /\ SQIscore[c] = Five /\ LastVisited(c) = "stage2"
            ELSE \/ pc[c] = "stage3" /\ SQIscore[c] = NoScore
                 \/ pc[c] = "done" /\ LastVisited(c) = "stage3"

\* two channels that differ by a little noise: a finite metric above 40
C4_Witness ==
    \E c \in Calls :
        /\ ValidCall(c) /\ pc[c] = "done" /\ SQIscore[c] = Five
        /\ LastVisited(c) = "stage2"
        /\ acorrDiffVar(OD1_filt[c], OD2_filt[c]).v > 0

\* ratio = ln(sum|oxy_filt| / sum|dxy_filt|) < 0.67
C5_RatioBelow(c) ==
    LET so == SumAbs(oxy_filt[c])
        sd == SumAbs(dxy_filt[c])
    IN  IF sd = 0 THEN FALSE
        ELSE IF so = 0 THEN TRUE
        ELSE LnFx(so) - LnFx(sd) < 6700

\* C5: Pass B.  Once a valid call has evaluated Pass B: if ratio < 0.67 it
\* has returned exactly 1 and neither Stage 2 nor Stage 3 is evaluated;
\* otherwise Pass B assigned no score and Stage 2 is evaluated next.
C5_PassBGate ==
    \A c \in Calls :
        (ValidCall(c) /\ Len(visited[c]) >= 4) =>
            IF C5_RatioBelow(c)
            THEN pc[c] = "done" /\ SQIscore[c] = One /\ LastVisited(c) = "passB"
            ELSE /\ Len(visited[c]) = 4 => pc[c] = "stage2" /\ SQIscore[c] = NoScore
                 /\ Len(visited[c]) > 4 => visited[c][5] = "stage2"

\* both haemoglobin signals have energy, the oxy one too little
C5_Witness ==
    \E c \in Calls :
        /\ ValidCall(c) /\ pc[c] = "done" /\ SQIscore[c] = One
        /\ LastVisited(c) = "passB"
        /\ SumAbs(oxy_filt[c]) > 0 /\ SumAbs(dxy_filt[c]) > 0

\* logStdHb * 1.795613343002295 + 0.846108994828045
C6_Raw(c) ==
    LET l == logStdHb(oxy_filt[c], dxy_filt[c])
    IN  IF l.k = "fin" THEN Fin(TruncDiv(l.v * 17956, 10000) + 8461) ELSE l

\* exactly 1 below 1, exactly 5 above 5, the raw value otherwise
C6_Clamped(x) ==
    IF x.k = "ninf" \/ (x.k = "fin" /\ x.v < 10000) THEN One
    ELSE IF x.k = "pinf" \/ (x.k = "fin" /\ x.v > 50000) THEN Five
    ELSE x

C7_Result(c) == [score |-> SQIscore[c], err |-> err[c]]

\* C7: SQI is a pure function.  No step changes an argument; a finished
\* call has the result SQI has on its arguments alone, however its steps
\* were interleaved with the other call's; and two finished calls with the
\* same arguments have the same result.
C7_Pure ==
    /\ [](\A c \in Calls : Finished(c) => C7_Result(c) = SQI(ArgsOf(c)))
    /\ [](\A c, d \in Calls :
            (Finished(c) /\ Finished(d) /\ ArgsOf(c) = ArgsOf(d)) =>
                C7_Result(c) = C7_Result(d))
    /\ [][<<OD1, OD2, oxy, dxy, Fs>>' = <<OD1, OD2, oxy, dxy, Fs>>]_vars

\* two calls on different arguments, both through Stage 3, different scores
C7_Witness ==
    /\ pc[1] = "done" /\ pc[2] = "done"
    /\ LastVisited(1) = "stage3" /\ LastVisited(2) = "stage3"
    /\ SQIscore[1] # SQIscore[2]

FirTapsChosen == f_pc \in {"firwin", "filtfilt", "returned", "raised_firwin", "raised_filtfilt"}

\* C8: the tap count handed to firwin is odd, at least 1, and at most
\* len(signal) / 3.5 (7 * numtaps <= 2 * N).
C8_TapsWithinCap ==
    FirTapsChosen =>
        /\ f_numtaps % 2 = 1
        /\ f_numtaps >= 1
        /\ 7 * f_numtaps <= 2 * f_len

\* C9: the tap count meets filtfilt's length requirement, N > 3 * numtaps,
\* so fir_filter does not raise and returns.
C9_FiltfiltAccepts ==
    /\ FirTapsChosen => f_len > 3 * f_numtaps
    /\ f_pc \notin {"raised_firwin", "raised_filtfilt"}

C10_Order == <<"range", "flat", "filter", "passB", "stage2", "stage3">>

\* C10: on valid arguments the stages run in the order Pass A (range, flat),
\* Preprocessor, Pass B, Stage 2, Stage 3, each at most once and only while
\* no score is assigned; and the call ends in Done with a score, never
\* without one.
C10_ForwardToDone ==
    \A c \in Calls :
        ValidCall(c) =>
            /\ Len(visited[c]) <= 6
            /\ visited[c] = SubSeq(C10_Order, 1, Len(visited[c]))
            /\ SQIscore[c] # NoScore <=> pc[c] = "done"
            /\ pc[c] # "raised"

====
